---- MODULE Spec2Model ----
(***************************************************************************)
(* A model of code/examples/libfuse-C-Example/myhello.c: a read-only FUSE  *)
(* file system that serves one regular file under the root directory.      *)
(*                                                                         *)
(* C strings are sequences of byte values (the terminating NUL is left     *)
(* implicit), pointers into a string are suffixes of the sequence, and     *)
(* size_t / int keep a two's-complement width, scaled down from 64 / 32    *)
(* bits to SizeBits / IntBits so that the wrap-around cases are reachable. *)
(***************************************************************************)
EXTENDS Integers, Sequences, FiniteSets, TLC

(* ------------------------------ bounds --------------------------------- *)

\* longest path the transport is made to deliver (bytes, leading "/" included)
MaxPath == 3
\* longest file name given with --name=
MaxName == 1
\* longest contents given with --contents=
MaxContents == 2
\* width of size_t and off_t in the model (64 in the build)
SizeBits == 6
\* width of int in the model (32 in the build)
IntBits == 5

(* --------------------------- program constants ------------------------- *)

ENOENT == 2
EACCES == 13
O_RDONLY == 0
O_WRONLY == 1
O_RDWR == 2
O_ACCMODE == 3
O_TRUNC == 512
O_APPEND == 1024
S_IFDIR == 16384
S_IFREG == 32768

\* "/" as a C string, and the byte '/'
Slash == 47
RootPath == <<Slash>>

\* strdup("Hello") and strdup("Hello World!\n"), the defaults set by main
DefaultName == <<72, 101, 108, 108, 111>>
DefaultContents == <<72, 101, 108, 108, 111, 32, 87, 111, 114, 108, 100, 33, 10>>

(* ------------------------------ input sets ----------------------------- *)

SeqUpTo(S, n) == UNION {[1..k -> S] : k \in 0..n}

\* bytes used in paths: '/', 'a'
PathBytes == {Slash, 97}
\* bytes used in --name= values: 'a'
NameBytes == {97}
\* bytes used in --contents= values: 'x', 'y'
ContentBytes == {120, 121}

\* The paths libfuse hands to the operations: always a "/" followed by the
\* rest.  "/Hello" is added so that the default name can be hit, "/A" and
\* "/hello" as paths that differ from a name in case only.
Paths == {RootPath \o s : s \in SeqUpTo(PathBytes, MaxPath - 1)}
           \cup {RootPath \o DefaultName, <<Slash, 65>>,
                 <<Slash, 104, 101, 108, 108, 111>>}

\* values fuse_opt_parse can store: any string, the empty one included
\* ("--name=" matches the template "--name=%s" with an empty parameter)
Names == SeqUpTo(NameBytes, MaxName) \cup {DefaultName}
Contents == SeqUpTo(ContentBytes, MaxContents) \cup {DefaultContents}

TwoToSize == 2 ^ SizeBits
TwoToInt == 2 ^ IntBits

\* size_t values requested: small ones around the contents' length and
\* large ones, where offset + size wraps
Sizes == {0, 1, MaxContents, MaxContents + 1, TwoToSize - MaxContents, TwoToSize - 1}
\* off_t values requested: non-negative, up to past the contents' end
Offsets == 0 .. MaxContents + 1

\* open(2) flags: an access mode, with or without O_APPEND / O_TRUNC
Flags == {O_RDONLY, O_WRONLY, O_RDWR, O_RDONLY + O_APPEND, O_RDONLY + O_TRUNC,
          O_WRONLY + O_APPEND, O_RDWR + O_TRUNC}

(* ------------------------------ C helpers ------------------------------ *)

\* strcmp: walks both strings byte by byte up to the first difference or NUL
RECURSIVE strcmp(_, _)
strcmp(s, t) ==
    IF s = <<>> /\ t = <<>> THEN 0
    ELSE IF s = <<>> THEN -1
    ELSE IF t = <<>> THEN 1
    ELSE IF Head(s) # Head(t) THEN (IF Head(s) < Head(t) THEN -1 ELSE 1)
    ELSE strcmp(Tail(s), Tail(t))

\* strlen
strlen(s) == Len(s)

\* path + 1: the string from the second byte on (paths are never empty)
PlusOne(path) == Tail(path)

\* a & b on non-negative integers
RECURSIVE BitAnd(_, _)
BitAnd(a, b) ==
    IF a = 0 \/ b = 0 THEN 0
    ELSE (a % 2) * (b % 2) + 2 * BitAnd(a \div 2, b \div 2)

\* conversion to size_t (also the usual arithmetic conversion of off_t)
ToSizeT(x) == x % TwoToSize

\* conversion of a size_t to the int the operation returns
ToInt(x) ==
    LET m == x % TwoToInt
    IN  IF m >= TwoToInt \div 2 THEN m - TwoToInt ELSE m

\* the bytes memcpy(buff, src + off, n) reads.  The allocation behind src
\* holds strlen(src) + 1 bytes (the NUL is byte 0).
InBounds(src, off, n) == off + n <= Len(src) + 1
CopyBytes(src, off, n) ==
    [i \in 1..n |-> IF off + i <= Len(src) THEN src[off + i] ELSE 0]

(* ------------------------------ the state ------------------------------ *)

VARIABLES
    options,    \* struct options: f_name, contents
    alive,      \* the process has not been killed by a fault
    pc,         \* the request loop: "idle" or "done"
    call,       \* the request being served
    res,        \* what the operation returned and wrote to its out-parameters
    again,      \* the request being served was issued a second time
    mainpc,     \* where main is (multi-threaded specification)
    th          \* the worker threads (multi-threaded specification)

vars == <<options, alive, pc, call, res, again, mainpc, th>>

NoCall == [op |-> "none", path |-> <<>>, flags |-> 0, size |-> 0, offset |-> 0]

\* out-parameters before a call: sbuf zeroed, nothing emitted or copied
NoRes == [ret |-> 0, st_mode |-> 0, st_nlink |-> 0, st_size |-> 0,
          buff |-> <<>>, n |-> 0, fault |-> FALSE]

(* ---------------------------- the operations --------------------------- *)

\* hello_getattr(path, sbuf, file_info); f_name and contents are the values
\* it reads from options
hello_getattr(path, f_name, contents) ==
    IF strcmp(path, RootPath) = 0
    THEN [NoRes EXCEPT !.st_mode = S_IFDIR + 493, !.st_nlink = 2]
    ELSE IF strcmp(PlusOne(path), f_name) = 0
    THEN [NoRes EXCEPT !.st_mode = S_IFREG + 292, !.st_nlink = 1,
                       !.st_size = strlen(contents)]
    ELSE [NoRes EXCEPT !.ret = -ENOENT]

\* filler(buff, name, NULL, 0, 0): adds one entry to the listing
filler(buff, name) == Append(buff, name)

\* hello_readdir that only looks at the first byte of the path
\* (strncmp(path, "/", 1)), so that every path lists the directory
hello_readdir_prefix(path, offset, f_name) ==
    IF Head(path) # Slash
    THEN [NoRes EXCEPT !.ret = -ENOENT]
    ELSE [NoRes EXCEPT !.buff = filler(filler(filler(<<>>, <<46>>), <<46, 46>>), f_name)]

\* hello_readdir(path, buff, filler, offset, file_info, flags)
hello_readdir(path, offset, f_name) ==
    IF strcmp(path, RootPath) # 0
    THEN [NoRes EXCEPT !.ret = -ENOENT]
    ELSE [NoRes EXCEPT !.buff = filler(filler(filler(<<>>, <<46>>), <<46, 46>>), f_name)]

\* hello_open comparing all of file_info->flags with O_RDONLY
hello_open_allflags(path, flags, f_name) ==
    IF strcmp(PlusOne(path), f_name) # 0
    THEN [NoRes EXCEPT !.ret = -ENOENT]
    ELSE IF flags # O_RDONLY
    THEN [NoRes EXCEPT !.ret = -EACCES]
    ELSE NoRes

\* hello_open(path, file_info)
hello_open(path, flags, f_name) ==
    IF strcmp(PlusOne(path), f_name) # 0
    THEN [NoRes EXCEPT !.ret = -ENOENT]
    ELSE IF BitAnd(flags, O_ACCMODE) # O_RDONLY
    THEN [NoRes EXCEPT !.ret = -EACCES]
    ELSE NoRes

\* hello_read(path, buff, size, offset, file_info); lenSrc is options.contents
\* as read for strlen (line 98), cpySrc as read for memcpy (line 103).
\* offset is converted to size_t where it meets len and size, and the sums
\* are taken modulo 2^SizeBits.  A memcpy that runs past the allocation is
\* undefined; its size is then at least 2^SizeBits minus the contents'
\* length, more than the address space holds, so the one outcome the build
\* produces is the fault that kills the process.
hello_read(path, size, offset, f_name, lenSrc, cpySrc) ==
    IF strcmp(PlusOne(path), f_name) # 0
    THEN [NoRes EXCEPT !.ret = -ENOENT]
    ELSE LET len == strlen(lenSrc)
             off == ToSizeT(offset)
         IN  IF off < len
             THEN LET n == IF ToSizeT(off + size) > len
                           THEN ToSizeT(len - off)
                           ELSE size
                  IN  IF InBounds(cpySrc, off, n)
                      THEN [NoRes EXCEPT !.n = n, !.ret = ToInt(n),
                                         !.buff = CopyBytes(cpySrc, off, n)]
                      ELSE [NoRes EXCEPT !.n = n, !.fault = TRUE]
             ELSE [NoRes EXCEPT !.ret = ToInt(0)]

\* hello_oper: the callback table
Dispatch(c, o) ==
    CASE c.op = "getattr" -> hello_getattr(c.path, o.f_name, o.contents)
      [] c.op = "readdir" -> hello_readdir(c.path, c.offset, o.f_name)
      [] c.op = "open"    -> hello_open(c.path, c.flags, o.f_name)
      [] c.op = "read"    -> hello_read(c.path, c.size, c.offset, o.f_name,
                                        o.contents, o.contents)

(* -------------------- single-threaded request loop --------------------- *)

\* main up to fuse_main: the defaults, each overridden or not
Configs == [f_name : Names, contents : Contents]

MTInit == mainpc = "serve" /\ th = <<>>

Init ==
    /\ options \in Configs
    /\ alive = TRUE
    /\ pc = "idle"
    /\ call = NoCall
    /\ res = NoRes
    /\ again = FALSE
    /\ MTInit

\* one request served: the operation runs as a whole and leaves options as
\* newOptions (the operations never assign to options)
Serve(c, newOptions) ==
    /\ alive
    /\ pc = "idle"
    /\ call' = c
    /\ res' = Dispatch(c, options)
    /\ alive' = ~res'.fault
    /\ options' = newOptions
    /\ pc' = "done"
    /\ UNCHANGED <<again, mainpc, th>>

GetAttr ==
    \E path \in Paths :
        Serve([NoCall EXCEPT !.op = "getattr", !.path = path], options)

ReadDir ==
    \E path \in Paths, offset \in {0, 1} :
        Serve([NoCall EXCEPT !.op = "readdir", !.path = path, !.offset = offset],
              options)

Open ==
    \E path \in Paths, flags \in Flags :
        Serve([NoCall EXCEPT !.op = "open", !.path = path, !.flags = flags],
              options)

\* a read that consumes what it returned, as a cursor over contents would
ReadConsuming ==
    \E path \in Paths, size \in Sizes, offset \in Offsets :
        LET c == [NoCall EXCEPT !.op = "read", !.path = path, !.size = size,
                                !.offset = offset]
            r == Dispatch(c, options)
        IN  Serve(c, [options EXCEPT !.contents =
                         IF r.fault \/ r.ret < 0 THEN @
                         ELSE SubSeq(@, r.n + 1, Len(@))])

Read ==
    \E path \in Paths, size \in Sizes, offset \in Offsets :
        Serve([NoCall EXCEPT !.op = "read", !.path = path, !.size = size,
                             !.offset = offset], options)

\* the transport issues the same request again
Repeat ==
    /\ alive
    /\ pc = "done"
    /\ ~again
    /\ res' = Dispatch(call, options)
    /\ alive' = ~res'.fault
    /\ again' = TRUE
    /\ UNCHANGED <<options, pc, call, mainpc, th>>

\* the transport relays the result and waits for the next request
Return ==
    /\ alive
    /\ pc = "done"
    /\ pc' = "idle"
    /\ call' = NoCall
    /\ res' = NoRes
    /\ again' = FALSE
    /\ UNCHANGED <<options, alive, mainpc, th>>

Next == GetAttr \/ ReadDir \/ Open \/ Read \/ Repeat \/ Return

Spec == Init /\ [][Next]_vars

(* ----------------------- startup and worker threads -------------------- *)

\* static struct options before main assigns it: both pointers NULL
NULL == <<-1>>

Threads == {1, 2}

\* the requests the worker threads are given
MTPaths == {p \in Paths : Len(p) <= 2 /\ p[Len(p)] \in PathBytes}
MTCalls ==
    {[NoCall EXCEPT !.op = "getattr", !.path = p] : p \in MTPaths}
    \cup {[NoCall EXCEPT !.op = "readdir", !.path = p] : p \in MTPaths}
    \cup {[NoCall EXCEPT !.op = "open", !.path = p, !.flags = f] :
             p \in MTPaths, f \in {O_RDONLY, O_WRONLY + O_APPEND}}
    \cup {[NoCall EXCEPT !.op = "read", !.path = p, !.size = a[1], !.offset = a[2]] :
             p \in MTPaths, a \in {<<1, 0>>, <<2, 1>>, <<TwoToSize - 1, 1>>}}

IdleThread == [pc |-> "idle", call |-> NoCall, f_name |-> NULL,
               lenSrc |-> NULL, res |-> NoRes]

\* fuse_main is entered, and requests are served, after fuse_opt_parse
ServingEarly == mainpc \in {"parse", "serve"}
Serving == mainpc = "serve"

\* whether the call reads options.f_name (lines 53, 75, 81, 94)
ReadsName(c) ==
    CASE c.op = "getattr" -> strcmp(c.path, RootPath) # 0
      [] c.op = "readdir" -> strcmp(c.path, RootPath) = 0
      [] c.op = "open"    -> TRUE
      [] c.op = "read"    -> TRUE

\* whether the call, having read f_name, reads options.contents (lines 56, 98)
ReadsContents(c, f_name) ==
    /\ c.op \in {"getattr", "read"}
    /\ strcmp(PlusOne(c.path), f_name) = 0

\* whether hello_read, having taken strlen, reads options.contents again
\* for memcpy (line 103)
Copies(c, lenSrc) == c.op = "read" /\ ToSizeT(c.offset) < strlen(lenSrc)

\* the operation's result from the values the thread read
ThreadResult(c, f_name, lenSrc, cpySrc) ==
    CASE c.op = "getattr" -> hello_getattr(c.path, f_name, lenSrc)
      [] c.op = "readdir" -> hello_readdir(c.path, c.offset, f_name)
      [] c.op = "open"    -> hello_open(c.path, c.flags, f_name)
      [] c.op = "read"    -> hello_read(c.path, c.size, c.offset, f_name,
                                        lenSrc, cpySrc)

MTFrame == UNCHANGED <<pc, call, res, again>>

\* the thread leaves the operation with result r
Finish(t, r) ==
    /\ th' = [th EXCEPT ![t].pc = "ret", ![t].res = r]
    /\ alive' = ~r.fault

\* main, lines 124-125
MainDefaults ==
    /\ mainpc = "start"
    /\ options' = [f_name |-> DefaultName, contents |-> DefaultContents]
    /\ mainpc' = "parse"
    /\ UNCHANGED <<alive, th>> /\ MTFrame

\* main, lines 127-131: the options given override the defaults
MainParse ==
    /\ mainpc = "parse"
    /\ options' \in Configs
    /\ mainpc' = "serve"
    /\ UNCHANGED <<alive, th>> /\ MTFrame

\* main, lines 127-129: fuse_opt_parse fails and main returns 1
MainParseFails ==
    /\ mainpc = "parse"
    /\ mainpc' = "exit"
    /\ UNCHANGED <<options, alive, th>> /\ MTFrame

\* a worker thread takes a request and enters the operation
ThStart(t) ==
    /\ Serving /\ alive
    /\ th[t].pc = "idle"
    /\ \E c \in MTCalls : th' = [th EXCEPT ![t] = [IdleThread EXCEPT !.pc = "entry", !.call = c]]
    /\ UNCHANGED <<options, alive, mainpc>> /\ MTFrame

\* the strcmp on options.f_name, or the return when the path decided already
ThName(t) ==
    /\ alive
    /\ th[t].pc = "entry"
    /\ IF ReadsName(th[t].call)
       THEN /\ th' = [th EXCEPT ![t].pc = "named", ![t].f_name = options.f_name]
            /\ UNCHANGED alive
       ELSE Finish(t, ThreadResult(th[t].call, NULL, NULL, NULL))
    /\ UNCHANGED <<options, mainpc>> /\ MTFrame

\* strlen(options.contents), or the return when the name decided
ThLen(t) ==
    /\ alive
    /\ th[t].pc = "named"
    /\ IF ReadsContents(th[t].call, th[t].f_name)
       THEN /\ th' = [th EXCEPT ![t].pc = "sized", ![t].lenSrc = options.contents]
            /\ UNCHANGED alive
       ELSE Finish(t, ThreadResult(th[t].call, th[t].f_name, NULL, NULL))
    /\ UNCHANGED <<options, mainpc>> /\ MTFrame

\* memcpy from options.contents where hello_read copies, and the return
ThCopy(t) ==
    /\ alive
    /\ th[t].pc = "sized"
    /\ Finish(t, ThreadResult(th[t].call, th[t].f_name, th[t].lenSrc,
                              IF Copies(th[t].call, th[t].lenSrc)
                              THEN options.contents ELSE NULL))
    /\ UNCHANGED <<options, mainpc>> /\ MTFrame

\* the transport relays the thread's result
ThRelay(t) ==
    /\ alive
    /\ th[t].pc = "ret"
    /\ th' = [th EXCEPT ![t] = IdleThread]
    /\ UNCHANGED <<options, alive, mainpc>> /\ MTFrame

InitMT ==
    /\ options = [f_name |-> NULL, contents |-> NULL]
    /\ alive = TRUE
    /\ mainpc = "start"
    /\ th = [t \in Threads |-> IdleThread]
    /\ pc = "idle" /\ call = NoCall /\ res = NoRes /\ again = FALSE

NextMT ==
    \/ MainDefaults \/ MainParse \/ MainParseFails
    \/ \E t \in Threads : ThStart(t) \/ ThName(t) \/ ThLen(t) \/ ThCopy(t) \/ ThRelay(t)

SpecMT == InitMT /\ [][NextMT]_vars

(* ------------------------------ the claims ----------------------------- *)

\* the path of the configured file: "/" followed by file_name
FilePath == RootPath \o options.f_name

Served(op) == pc = "done" /\ call.op = op

\* what a getattr result says the path is
IsDirectory(r) ==
    r.ret = 0 /\ r.st_mode = S_IFDIR + 493 /\ r.st_nlink = 2 /\ r.st_size = 0
IsRegular(r) ==
    r.ret = 0 /\ r.st_mode = S_IFREG + 292 /\ r.st_nlink = 1
NoSuchEntry(r) == r.ret = -ENOENT
AccessDenied(r) == r.ret = -EACCES

Min(a, b) == IF a < b THEN a ELSE b

\* contents[offset : min(offset + maxLength, length(contents))]
Slice(c, offset, maxLength) ==
    IF offset < Len(c) THEN SubSeq(c, offset + 1, Min(offset + maxLength, Len(c)))
    ELSE <<>>

\* C1: getattr classifies every path as exactly one of root, file, not
\* found; root iff the path is "/", file iff the path is "/" + file_name
\* byte for byte, and it fails with ENOENT iff the path is neither.
C1_Resolve ==
    Served("getattr") =>
        /\ Cardinality({k \in {"Root", "File", "NotFound"} :
              \/ k = "Root" /\ IsDirectory(res)
              \/ k = "File" /\ IsRegular(res)
              \/ k = "NotFound" /\ NoSuchEntry(res)}) = 1
        /\ IsDirectory(res) <=> call.path = RootPath
        /\ IsRegular(res) <=> call.path = FilePath
        /\ NoSuchEntry(res) <=> (call.path # RootPath /\ call.path # FilePath)

\* C2: a read of the file path never fails and returns exactly
\* contents[offset : min(offset + maxLength, length(contents))], the empty
\* slice when offset is at or past the end.
C2_ReadRange ==
    (Served("read") /\ call.path = FilePath) =>
        /\ ~res.fault
        /\ res.buff = Slice(options.contents, call.offset, call.size)
        /\ res.ret = Len(res.buff)

\* C3 as stated: an open of the file path succeeds only for plain O_RDONLY;
\* every other request, one carrying O_APPEND or O_TRUNC included, fails
\* with EACCES.
C3_OnlyPlainReadOnly ==
    (Served("open") /\ call.path = FilePath) =>
        IF call.flags = O_RDONLY THEN res.ret = 0 ELSE AccessDenied(res)

\* C3 as amended: an open of the file path succeeds exactly when the access
\* mode of the request (its two low bits) is O_RDONLY, whatever other flags
\* it carries; an access mode of O_WRONLY or O_RDWR fails with EACCES.
C3_AccessModeDecides ==
    (Served("open") /\ call.path = FilePath) =>
        IF call.flags % 4 = O_RDONLY THEN res.ret = 0 ELSE AccessDenied(res)

C3_Witness ==
    /\ Served("open") /\ call.path = FilePath
    /\ call.flags = O_RDONLY + O_APPEND
    /\ res.ret = 0

\* C4: open and read of a path that is not the file, the root included,
\* fail with ENOENT for every access mode, offset and size.
C4_NonFileIsNoSuchEntry ==
    ((Served("open") \/ Served("read"))
        /\ (call.path = RootPath \/ call.path # FilePath))
    => (NoSuchEntry(res) /\ ~res.fault)

\* C5: readdir succeeds iff the path is "/"; it then emits ".", "..",
\* file_name in that order, whatever the contents and the offset asked for;
\* for any other path it fails with ENOENT and emits nothing.
C5_ListDirectory ==
    Served("readdir") =>
        IF call.path = RootPath
        THEN res.ret = 0 /\ res.buff = <<(<<46>>), (<<46, 46>>), options.f_name>>
        ELSE NoSuchEntry(res) /\ res.buff = <<>>

C5_Witness ==
    /\ Served("readdir") /\ call.path = RootPath /\ call.offset = 1
    /\ options.f_name = <<97>> /\ options.contents = <<120, 121>>
    /\ res.buff = <<(<<46>>), (<<46, 46>>), (<<97>>)>>

\* C6: getattr of the file path reports a regular file, mode 0444, one link,
\* size = length of contents; getattr of "/" reports a directory, mode 0755,
\* two links, size 0; a read from offset 0 of at least that size returns
\* that many bytes.
C6_Attributes ==
    /\ (Served("getattr") /\ call.path = FilePath) =>
          (IsRegular(res) /\ res.st_size = Len(options.contents))
    /\ (Served("getattr") /\ call.path = RootPath) => IsDirectory(res)
    /\ (Served("read") /\ call.path = FilePath /\ call.offset = 0
          /\ call.size >= Len(options.contents)) =>
          (res.ret = Len(options.contents) /\ Len(res.buff) = res.ret)

\* C7: no operation changes file_name or contents, and a request issued
\* again with the same arguments gets the same result.
C7_NoStateChange ==
    [][ /\ options' = options
        /\ (pc = "done" /\ pc' = "done" /\ call' = call) => res' = res ]_vars

C7_Witness ==
    /\ Served("read") /\ again /\ call.offset = 1
    /\ res.buff = <<121>> /\ options.contents = <<120, 121>>

\* C9: whatever --name / --contents gave, the root is a directory and never
\* the file: open and read of "/" fail with ENOENT, and exactly one path is
\* reported as a regular file.
C9_RootIsNeverTheFile ==
    /\ IsDirectory(hello_getattr(RootPath, options.f_name, options.contents))
    /\ ((Served("open") \/ Served("read")) /\ call.path = RootPath)
          => NoSuchEntry(res)
    /\ Cardinality({p \in Paths :
          IsRegular(hello_getattr(p, options.f_name, options.contents))}) = 1

\* C10: hello_read copies at most the size asked for, never past the end of
\* contents, and returns the number of bytes it copied.
C10_CopyWithinContents ==
    (Served("read") /\ ~NoSuchEntry(res)) =>
        /\ ~res.fault
        /\ res.n <= call.size
        /\ res.n > 0 => call.offset + res.n <= Len(options.contents)
        /\ res.ret = res.n

\* C8: with the operations of several threads interleaved, every call
\* returns what it returns when run alone on the configuration, and the
\* configuration is not written while a call is in progress: it is written
\* during startup only, before the first request is served.
C8_ConcurrentReaders ==
    /\ [](\A t \in Threads :
            th[t].pc = "ret" => th[t].res = Dispatch(th[t].call, options))
    /\ [][ ((\E t \in Threads : th[t].pc # "idle") \/ mainpc = "serve")
              => options' = options ]_vars

C8_Witness ==
    /\ th[1].pc = "ret" /\ th[1].call.op = "read" /\ th[1].res.buff = <<121>>
    /\ th[2].pc = "sized" /\ th[2].call.op = "getattr"
    /\ options.f_name = <<97>>

====
